---- MODULE Spec2Model ----
(***************************************************************************)
(* Model of zhaquirks/xiaomi/aqara/plug_eu.py: the Aqara EU plug quirks.   *)
(*                                                                         *)
(*   - PlugAEU001MeteringCluster._update_attribute (monotonic guard on     *)
(*     current_summ_delivered)                          SpecMetering       *)
(*   - OppleCluster.bind / remove_from_ep               SpecBind           *)
(*   - the eight legacy quirk classes (signature and replacement tables)   *)
(*                                                      SpecQuirk          *)
(*   - AqaraPowerOutageMemoryEnum                       SpecEnum           *)
(***************************************************************************)
EXTENDS Integers, Sequences, FiniteSets, TLC

VARIABLES
    \* PlugAEU001MeteringCluster
    attr_cache,      \* self._attr_cache: dict: attribute id -> cached value
    last_call,       \* arguments of the most recent _update_attribute call
    parent_calls,    \* number of super()._update_attribute invocations so far
    parent_args,     \* arguments of the most recent parent invocation
    reported,        \* set of current_summ_delivered values reported so far
    \* OppleCluster.bind
    dev_endpoints,   \* keys of self.endpoint.device.endpoints
    group0,          \* endpoints of the device that are members of group 0
    opple_mode,      \* value of attribute 0x0009 (mode) on the device
    binds,           \* number of bind() calls made so far
    bind_pc,         \* position of the running bind() coroutine
    result,          \* the local variable result of bind()
    parent_result,   \* what super().bind() produced for the current call
    bind_returned,   \* the value bind() returned
    events,          \* what the current bind() call has done, in order
    write_tasks,     \* the tasks made by create_catching_task, one per bind
    \* legacy quirk classes
    dev_model_info,  \* (manufacturer, model) of the joined device
    dev_sig,         \* endpoint id -> simple descriptor the device reported
    quirk_class,     \* the quirk class the device was wrapped in
    quirk_endpoints, \* endpoint id -> endpoint of the wrapped device
    applied_quirks,  \* quirk classes that have been applied so far
    \* AqaraPowerOutageMemoryEnum
    enum_pc,         \* what was last done with power_on_behavior
    enum_member,     \* the member selected for writing
    enum_raw,        \* the uint8 on the wire
    enum_read        \* the member the raw value was converted to

metering_vars == <<attr_cache, last_call, parent_calls, parent_args, reported>>

bind_ctl  == <<binds, bind_pc, result, parent_result, bind_returned, events>>
bind_vars == <<dev_endpoints, group0, opple_mode, binds, bind_pc, result,
               parent_result, bind_returned, events, write_tasks>>

quirk_vars == <<dev_model_info, dev_sig, quirk_class, quirk_endpoints,
                applied_quirks>>

enum_vars == <<enum_pc, enum_member, enum_raw, enum_read>>

vars == <<metering_vars, bind_vars, quirk_vars, enum_vars>>

----------------------------------------------------------------------------
(* Bounds *)

MaxValue == 3        \* largest reported attribute value
NegDepth == 1        \* reported values go down to -NegDepth
MaxParentCalls == 4  \* cap on the parent-invocation counter
MaxBinds == 2        \* cap on the number of bind() calls

----------------------------------------------------------------------------
(* PlugAEU001MeteringCluster *)

\* Metering attribute id of current_summ_delivered (0x0000).
CURRENT_SUMM_DELIVERED_ID == 0
\* Another metering attribute (instantaneous_demand, 0x0400).
INSTANTANEOUS_DEMAND_ID == 1024

AttrIds == {CURRENT_SUMM_DELIVERED_ID, INSTANTANEOUS_DEMAND_ID}
Values  == (0 - NegDepth)..MaxValue

EmptyCache == [a \in {} |-> 0]
NoCall == [attrid |-> -1, value |-> 0]

\* self._attr_cache.get(attrid, 0)
CacheGet(cache, attrid, default) ==
    IF attrid \in DOMAIN cache THEN cache[attrid] ELSE default

\* Faulty variants of the guard.
Ignored_NoGuard(cache, attrid, value) == FALSE

Ignored_Flipped(cache, attrid, value) ==
    /\ attrid = CURRENT_SUMM_DELIVERED_ID
    /\ value > CacheGet(cache, attrid, 0)

Ignored_LessEqual(cache, attrid, value) ==
    /\ attrid = CURRENT_SUMM_DELIVERED_ID
    /\ value <= CacheGet(cache, attrid, 0)

Ignored_AnyAttr(cache, attrid, value) ==
    value < CacheGet(cache, attrid, 0)

\* The guard of lines 385-387: the update is dropped.
Ignored(cache, attrid, value) ==
    /\ attrid = CURRENT_SUMM_DELIVERED_ID
    /\ value < CacheGet(cache, attrid, 0)

\* super()._update_attribute(attrid, value): the framework stores the value
\* in the attribute cache.
ParentUpdate(cache, attrid, value) ==
    [a \in DOMAIN cache \cup {attrid} |->
        IF a = attrid THEN value ELSE cache[a]]

MeteringIdle ==
    /\ attr_cache = EmptyCache
    /\ last_call = NoCall
    /\ parent_calls = 0
    /\ parent_args = NoCall
    /\ reported = {}

\* PlugAEU001MeteringCluster._update_attribute(attrid, value)
update_attribute(attrid, value) ==
    /\ parent_calls < MaxParentCalls
    /\ UNCHANGED <<bind_vars, quirk_vars, enum_vars>>
    /\ last_call' = [attrid |-> attrid, value |-> value]
    /\ reported' = IF attrid = CURRENT_SUMM_DELIVERED_ID
                   THEN reported \cup {value} ELSE reported
    /\ IF Ignored(attr_cache, attrid, value)
       THEN UNCHANGED <<attr_cache, parent_calls, parent_args>>
       ELSE /\ attr_cache' = ParentUpdate(attr_cache, attrid, value)
            /\ parent_calls' = parent_calls + 1
            /\ parent_args' = [attrid |-> attrid, value |-> value]

UpdateAttribute ==
    \E attrid \in AttrIds, value \in Values : update_attribute(attrid, value)

----------------------------------------------------------------------------
(* OppleCluster.bind and remove_from_ep *)

OPPLE_MFG_CODE == 4447     \* 0x115F
MODE_ATTR_ID == 9          \* 0x0009: ("mode", uint8_t)

\* attr_config = {0x0009: 0x01}
attr_config == [a \in {MODE_ATTR_ID} |-> 1]

EndpointIds == {1, 21, 242}
BindResults == {"SUCCESS", "TABLE_FULL"}   \* what super().bind() may return
NoResult == "none"

BindIdle ==
    /\ dev_endpoints = {}
    /\ group0 = {}
    /\ opple_mode = 0
    /\ binds = 0
    /\ bind_pc = "idle"
    /\ result = NoResult
    /\ parent_result = NoResult
    /\ bind_returned = NoResult
    /\ events = <<>>
    /\ write_tasks = <<>>

\* A faulty variant: the lookup finds an endpoint on every device.
GetEndpoint1_Always(endpoints) == TRUE

\* endpoint = dev.endpoints.get(1); endpoint is not None
GetEndpoint1(endpoints) == 1 \in endpoints

\* A faulty variant: the group is left before the write is scheduled.
StepsAfterParentBind_RemoveFirst(endpoints) ==
    IF GetEndpoint1(endpoints)
    THEN <<"remove_requested", "write_scheduled">>
    ELSE <<"write_scheduled", "returned">>

\* Lines 80-84 up to the first suspension: the write task is created, then
\* remove_from_ep runs; without endpoint 1 it has nothing to await and
\* bind returns at once.
StepsAfterParentBind(endpoints) ==
    <<"write_scheduled">> \o
    (IF GetEndpoint1(endpoints) THEN <<"remove_requested">> ELSE <<"returned">>)

\* The task made by
\* create_catching_task(write_attributes(attr_config, manufacturer=...))
NewWriteTask ==
    [state |-> "scheduled", attrs |-> attr_config,
     manufacturer |-> OPPLE_MFG_CODE, settled_during |-> "none"]

\* bind() is called.
BindCall ==
    /\ bind_pc \in {"idle", "returned", "raised"}
    /\ binds < MaxBinds
    /\ binds' = binds + 1
    /\ bind_pc' = "parent_bind"
    /\ result' = NoResult
    /\ parent_result' = NoResult
    /\ bind_returned' = NoResult
    /\ events' = <<>>
    /\ UNCHANGED <<dev_endpoints, group0, opple_mode, write_tasks>>
    /\ UNCHANGED <<metering_vars, quirk_vars, enum_vars>>

\* result = await super().bind() completes with r; bind then runs to its
\* next suspension point.
ParentBindReturns(r) ==
    /\ bind_pc = "parent_bind"
    /\ result' = r
    /\ parent_result' = r
    /\ write_tasks' = Append(write_tasks, NewWriteTask)
    /\ events' = <<"parent_bind">> \o StepsAfterParentBind(dev_endpoints)
    /\ IF GetEndpoint1(dev_endpoints)
       THEN /\ bind_pc' = "remove_from_group"
            /\ UNCHANGED bind_returned
       ELSE /\ bind_pc' = "returned"
            /\ bind_returned' = r
    /\ UNCHANGED <<dev_endpoints, group0, opple_mode, binds>>
    /\ UNCHANGED <<metering_vars, quirk_vars, enum_vars>>

\* await super().bind() raises; the exception leaves bind().
ParentBindRaises ==
    /\ bind_pc = "parent_bind"
    /\ bind_pc' = "raised"
    /\ events' = <<"parent_bind_raised">>
    /\ UNCHANGED <<dev_endpoints, group0, opple_mode, binds, result,
                   parent_result, bind_returned, write_tasks>>
    /\ UNCHANGED <<metering_vars, quirk_vars, enum_vars>>

\* await endpoint.remove_from_group(0) completes, the device having left the
\* group or answered that it did not; remove_from_ep returns and bind
\* returns result.
RemoveFromGroupCompletes ==
    /\ bind_pc = "remove_from_group"
    /\ group0' \in {group0, group0 \ {1}}
    /\ events' = events \o <<"remove_completed", "returned">>
    /\ bind_pc' = "returned"
    /\ bind_returned' = result
    /\ UNCHANGED <<dev_endpoints, opple_mode, binds, result, parent_result,
                   write_tasks>>
    /\ UNCHANGED <<metering_vars, quirk_vars, enum_vars>>

\* await endpoint.remove_from_group(0) raises; the device may or may not
\* have carried the request out.
RemoveFromGroupRaises ==
    /\ bind_pc = "remove_from_group"
    /\ group0' \in {group0, group0 \ {1}}
    /\ events' = Append(events, "remove_raised")
    /\ bind_pc' = "raised"
    /\ UNCHANGED <<dev_endpoints, opple_mode, binds, result, parent_result,
                   bind_returned, write_tasks>>
    /\ UNCHANGED <<metering_vars, quirk_vars, enum_vars>>

\* The event loop starts task i: the write request is sent.
WriteTaskStarts(i) ==
    /\ write_tasks[i].state = "scheduled"
    /\ write_tasks' = [write_tasks EXCEPT ![i].state = "running"]
    /\ UNCHANGED <<dev_endpoints, group0, opple_mode>>
    /\ UNCHANGED bind_ctl
    /\ UNCHANGED <<metering_vars, quirk_vars, enum_vars>>

\* The write of task i is answered.
WriteTaskSucceeds(i) ==
    /\ write_tasks[i].state = "running"
    /\ write_tasks' = [write_tasks EXCEPT ![i].state = "done",
                                          ![i].settled_during = bind_pc]
    /\ opple_mode' = write_tasks[i].attrs[MODE_ATTR_ID]
    /\ UNCHANGED <<dev_endpoints, group0>>
    /\ UNCHANGED bind_ctl
    /\ UNCHANGED <<metering_vars, quirk_vars, enum_vars>>

\* A faulty variant: the write is awaited by bind() itself, so its failure
\* leaves bind() as an exception.
WriteTaskFails_Propagates(i) ==
    /\ write_tasks[i].state = "running"
    /\ write_tasks' = [write_tasks EXCEPT ![i].state = "failed",
                                          ![i].settled_during = bind_pc]
    /\ opple_mode' \in {opple_mode, write_tasks[i].attrs[MODE_ATTR_ID]}
    /\ bind_pc' = IF bind_pc = "remove_from_group" THEN "raised" ELSE bind_pc
    /\ events' = IF bind_pc = "remove_from_group"
                 THEN Append(events, "write_raised") ELSE events
    /\ UNCHANGED <<dev_endpoints, group0, binds, result, parent_result,
                   bind_returned>>
    /\ UNCHANGED <<metering_vars, quirk_vars, enum_vars>>

\* The write of task i times out or fails; the catching task swallows the
\* exception.  The device may have written the attribute all the same.
WriteTaskFails(i) ==
    /\ write_tasks[i].state = "running"
    /\ write_tasks' = [write_tasks EXCEPT ![i].state = "failed",
                                          ![i].settled_during = bind_pc]
    /\ opple_mode' \in {opple_mode, write_tasks[i].attrs[MODE_ATTR_ID]}
    /\ UNCHANGED <<dev_endpoints, group0>>
    /\ UNCHANGED bind_ctl
    /\ UNCHANGED <<metering_vars, quirk_vars, enum_vars>>

----------------------------------------------------------------------------
(* The legacy quirk classes: signature and replacement tables *)

LUMI == "LUMI"

ZHA_PROFILE_ID == 260      \* zha.PROFILE_ID
ZGP_PROFILE_ID == 41440    \* zgp.PROFILE_ID
SMART_PLUG == 81           \* zha.DeviceType.SMART_PLUG
PROXY_BASIC == 97          \* zgp.DeviceType.PROXY_BASIC

\* cluster ids
Basic == 0
DeviceTemperature == 2
Identify == 3
Groups == 4
Scenes == 5
OnOff == 6
Alarms == 9
Time == 10
AnalogInput == 12
Ota == 25
GreenPowerProxy == 33
Metering == 1794
ElectricalMeasurement == 2820
OppleClusterId == 64704    \* OppleCluster.cluster_id (0xFCC0)

Range(seq) == {seq[i] : i \in DOMAIN seq}

\* An entry of a replacement cluster list: a plain cluster id or a custom
\* cluster class.
Std(id) == [id |-> id, cls |-> "zcl"]
Custom(id, cls) == [id |-> id, cls |-> cls]

BasicCluster == Custom(Basic, "BasicCluster")
MeteringCluster == Custom(Metering, "MeteringCluster")
ElectricalMeasurementCluster ==
    Custom(ElectricalMeasurement, "ElectricalMeasurementCluster")
OppleCluster == Custom(OppleClusterId, "OppleCluster")
AnalogInputCluster == Custom(AnalogInput, "AnalogInputCluster")

Descriptor(profile, type, inputs, outputs) ==
    [profile_id |-> profile, device_type |-> type,
     input_clusters |-> inputs, output_clusters |-> outputs]

\* signature endpoints shared by the tables
SigEp1Metering ==
    Descriptor(ZHA_PROFILE_ID, SMART_PLUG,
               <<Basic, DeviceTemperature, Identify, Groups, Scenes, OnOff,
                 Alarms, Metering, ElectricalMeasurement>>,
               <<Time, Ota>>)

SigEp1Opple ==
    Descriptor(ZHA_PROFILE_ID, SMART_PLUG,
               <<Basic, DeviceTemperature, Identify, Groups, Scenes, OnOff,
                 OppleClusterId>>,
               <<Time, Ota>>)

SigEpAnalogInput ==
    Descriptor(ZHA_PROFILE_ID, SMART_PLUG, <<AnalogInput>>, <<>>)

SigEpGreenPower ==
    Descriptor(ZGP_PROFILE_ID, PROXY_BASIC, <<>>, <<GreenPowerProxy>>)

\* PlugMMEU01.signature[ENDPOINTS]
PlugMMEU01_endpoints ==
    [ep \in {1, 242} |-> IF ep = 1 THEN SigEp1Metering ELSE SigEpGreenPower]

\* PlugMMEU01Alt1.signature[ENDPOINTS]
PlugMMEU01Alt1_endpoints ==
    [ep \in {1, 21, 31, 242} |->
        CASE ep = 1 -> SigEp1Opple
          [] ep = 242 -> SigEpGreenPower
          [] OTHER -> SigEpAnalogInput]

\* PlugMMEU01Alt2.signature[ENDPOINTS]
PlugMMEU01Alt2_endpoints ==
    [ep \in {1, 242} |-> IF ep = 1 THEN SigEp1Opple ELSE SigEpGreenPower]

\* PlugMMEU01Alt3.signature[ENDPOINTS]
PlugMMEU01Alt3_endpoints ==
    [ep \in {1, 21, 22, 242} |->
        CASE ep = 1 -> SigEp1Opple
          [] ep = 242 -> SigEpGreenPower
          [] OTHER -> SigEpAnalogInput]

MMEU01_models == {<<LUMI, "lumi.plug.mmeu01">>}
MAEU01_models == {<<LUMI, "lumi.plug.maeu01">>}

LegacyQuirks ==
    {"PlugMMEU01", "PlugMMEU01Alt1", "PlugMMEU01Alt2", "PlugMMEU01Alt3",
     "PlugMAEU01", "PlugMAEU01Alt1", "PlugMAEU01Alt2", "PlugMAEU01Alt3"}

\* The signature attribute of each class.
signature(q) ==
    CASE q = "PlugMMEU01" ->
            [models_info |-> MMEU01_models, endpoints |-> PlugMMEU01_endpoints]
      [] q = "PlugMMEU01Alt1" ->
            [models_info |-> MMEU01_models,
             endpoints |-> PlugMMEU01Alt1_endpoints]
      [] q = "PlugMMEU01Alt2" ->
            [models_info |-> MMEU01_models,
             endpoints |-> PlugMMEU01Alt2_endpoints]
      [] q = "PlugMMEU01Alt3" ->
            [models_info |-> MMEU01_models,
             endpoints |-> PlugMMEU01Alt3_endpoints]
      [] q = "PlugMAEU01" ->
            [models_info |-> MAEU01_models, endpoints |-> PlugMMEU01_endpoints]
      [] q = "PlugMAEU01Alt1" ->
            [models_info |-> MAEU01_models,
             endpoints |-> PlugMMEU01Alt1_endpoints]
      [] q = "PlugMAEU01Alt2" ->
            [models_info |-> MAEU01_models,
             endpoints |-> PlugMMEU01Alt2_endpoints]
      [] q = "PlugMAEU01Alt3" ->
            [models_info |-> MAEU01_models,
             endpoints |-> PlugMMEU01Alt3_endpoints]

ReplEp1 ==
    Descriptor(ZHA_PROFILE_ID, SMART_PLUG,
               <<BasicCluster, Std(DeviceTemperature), Std(Identify),
                 Std(Groups), Std(Scenes), Std(OnOff), Std(Alarms),
                 MeteringCluster, ElectricalMeasurementCluster, OppleCluster>>,
               <<Std(Time), Std(Ota)>>)

ReplEp21 ==
    Descriptor(ZHA_PROFILE_ID, SMART_PLUG, <<AnalogInputCluster>>, <<>>)

ReplEp242 ==
    Descriptor(ZGP_PROFILE_ID, PROXY_BASIC, <<>>, <<Std(GreenPowerProxy)>>)

\* PlugMMEU01.replacement[ENDPOINTS]
PlugMMEU01_replacement ==
    [ep \in {1, 21, 242} |->
        CASE ep = 1 -> ReplEp1
          [] ep = 21 -> ReplEp21
          [] ep = 242 -> ReplEp242]

\* A faulty variant: a class replaces only the endpoints its signature lists.
replacement_PerSignature(q) ==
    [ep \in DOMAIN signature(q).endpoints |->
        CASE ep = 1 -> ReplEp1
          [] ep = 242 -> ReplEp242
          [] OTHER -> ReplEp21]

\* The replacement attribute of each class: every class assigns
\* PlugMMEU01.replacement, directly or through PlugMAEU01.replacement.
replacement(q) ==
    CASE q = "PlugMMEU01" -> PlugMMEU01_replacement
      [] q \in {"PlugMMEU01Alt1", "PlugMMEU01Alt2", "PlugMMEU01Alt3"} ->
            PlugMMEU01_replacement
      [] q = "PlugMAEU01" -> PlugMMEU01_replacement
      [] q \in {"PlugMAEU01Alt1", "PlugMAEU01Alt2", "PlugMAEU01Alt3"} ->
            PlugMMEU01_replacement

\* The devices that may join: every plug has endpoint 1 and the green power
\* endpoint 242, and any of the analog input endpoints.
JoinModels == {"lumi.plug.mmeu01", "lumi.plug.maeu01", "lumi.plug.aeu001"}
AnalogInputEndpointIds == {21, 22, 31}
Ep1Descriptors == {SigEp1Metering, SigEp1Opple}

JoinSignature(ep1, analog) ==
    [ep \in {1, 242} \cup analog |->
        CASE ep = 1 -> ep1
          [] ep = 242 -> SigEpGreenPower
          [] OTHER -> SigEpAnalogInput]

NoDevice == [e \in {} |-> 0]

QuirkIdle ==
    /\ dev_model_info = <<"none", "none">>
    /\ dev_sig = NoDevice
    /\ quirk_class = "none"
    /\ quirk_endpoints = NoDevice
    /\ applied_quirks = {}

\* The quirk registry's signature match: same model, same endpoint ids and,
\* per endpoint, the same profile, device type and cluster sets.
Matches(q, model_info, sig) ==
    /\ model_info \in signature(q).models_info
    /\ DOMAIN sig = DOMAIN signature(q).endpoints
    /\ \A ep \in DOMAIN sig :
          LET s == signature(q).endpoints[ep] IN
          /\ sig[ep].profile_id = s.profile_id
          /\ sig[ep].device_type = s.device_type
          /\ Range(sig[ep].input_clusters) = Range(s.input_clusters)
          /\ Range(sig[ep].output_clusters) = Range(s.output_clusters)

\* A device joins and reports its simple descriptors.
DeviceJoins ==
    /\ dev_sig = NoDevice \/ quirk_class # "none"
    /\ \E model \in JoinModels, ep1 \in Ep1Descriptors,
          analog \in SUBSET AnalogInputEndpointIds :
             /\ dev_model_info' = <<LUMI, model>>
             /\ dev_sig' = JoinSignature(ep1, analog)
    /\ quirk_class' = "none"
    /\ quirk_endpoints' = NoDevice
    /\ UNCHANGED applied_quirks
    /\ UNCHANGED <<metering_vars, bind_vars, enum_vars>>

\* The device matches class q and is wrapped: its endpoints are those of
\* the class's replacement.
ApplyQuirk(q) ==
    /\ dev_sig # NoDevice
    /\ quirk_class = "none"
    /\ Matches(q, dev_model_info, dev_sig)
    /\ quirk_class' = q
    /\ quirk_endpoints' = replacement(q)
    /\ applied_quirks' = applied_quirks \cup {q}
    /\ UNCHANGED <<dev_model_info, dev_sig>>
    /\ UNCHANGED <<metering_vars, bind_vars, enum_vars>>

\* No legacy class matches: the device is left as it reported itself.
NoQuirkMatches ==
    /\ dev_sig # NoDevice
    /\ quirk_class = "none"
    /\ \A q \in LegacyQuirks : ~Matches(q, dev_model_info, dev_sig)
    /\ quirk_class' = "unmatched"
    /\ quirk_endpoints' = NoDevice
    /\ UNCHANGED <<dev_model_info, dev_sig, applied_quirks>>
    /\ UNCHANGED <<metering_vars, bind_vars, enum_vars>>

----------------------------------------------------------------------------
(* AqaraPowerOutageMemoryEnum *)

UINT8_RANGE == 256    \* types.uint8_t

\* A faulty variant: two members share a raw value.
AqaraPowerOutageMemoryEnum_Duplicate ==
    <<[name |-> "On", value |-> 0],
      [name |-> "Previous", value |-> 1],
      [name |-> "Off", value |-> 2],
      [name |-> "Inverted", value |-> 2]>>

\* The members in definition order.
AqaraPowerOutageMemoryEnum ==
    <<[name |-> "On", value |-> 0],
      [name |-> "Previous", value |-> 1],
      [name |-> "Off", value |-> 2],
      [name |-> "Inverted", value |-> 3]>>

EnumNames ==
    {AqaraPowerOutageMemoryEnum[i].name : i \in DOMAIN AqaraPowerOutageMemoryEnum}

\* AqaraPowerOutageMemoryEnum[name].value
EnumValue(name) ==
    LET i == CHOOSE k \in DOMAIN AqaraPowerOutageMemoryEnum :
                 AqaraPowerOutageMemoryEnum[k].name = name
    IN AqaraPowerOutageMemoryEnum[i].value

\* AqaraPowerOutageMemoryEnum(raw): the first member defined with that value
\* (a later member with the same value is an alias of it), ValueError when
\* no member has it.
EnumByValue(raw) ==
    LET hits == {k \in DOMAIN AqaraPowerOutageMemoryEnum :
                    AqaraPowerOutageMemoryEnum[k].value = raw}
    IN IF hits = {} THEN "ValueError"
       ELSE AqaraPowerOutageMemoryEnum[
                CHOOSE k \in hits : \A j \in hits : k <= j].name

\* uint8_t serialisation
ToUint8(v) == v % UINT8_RANGE

EnumIdle ==
    /\ enum_pc = "idle"
    /\ enum_member = "none"
    /\ enum_raw = 0
    /\ enum_read = "none"

\* A member of the power_on_behavior enum entity is selected and written to
\* attribute 0x0517 as its raw value.
SelectOption(name) ==
    /\ enum_pc' = "written"
    /\ enum_member' = name
    /\ enum_raw' = ToUint8(EnumValue(name))
    /\ enum_read' = "none"
    /\ UNCHANGED <<metering_vars, bind_vars, quirk_vars>>

\* The written raw value is read back and converted to a member.
ReadBack ==
    /\ enum_pc = "written"
    /\ enum_pc' = "read"
    /\ enum_read' = EnumByValue(enum_raw)
    /\ UNCHANGED <<enum_member, enum_raw>>
    /\ UNCHANGED <<metering_vars, bind_vars, quirk_vars>>

\* The device reports a raw uint8 for attribute 0x0517.
DeviceReports(raw) ==
    /\ enum_pc' = "reported"
    /\ enum_member' = "none"
    /\ enum_raw' = raw
    /\ enum_read' = EnumByValue(raw)
    /\ UNCHANGED <<metering_vars, bind_vars, quirk_vars>>

----------------------------------------------------------------------------
(* Specifications *)

InitMetering == MeteringIdle /\ BindIdle /\ QuirkIdle /\ EnumIdle

NextMetering == UpdateAttribute

SpecMetering == InitMetering /\ [][NextMetering]_vars

InitBind ==
    /\ MeteringIdle
    /\ QuirkIdle
    /\ EnumIdle
    /\ dev_endpoints \in SUBSET EndpointIds
    /\ group0 \in SUBSET dev_endpoints
    /\ opple_mode \in {0, 1}
    /\ binds = 0
    /\ bind_pc = "idle"
    /\ result = NoResult
    /\ parent_result = NoResult
    /\ bind_returned = NoResult
    /\ events = <<>>
    /\ write_tasks = <<>>

NextBind ==
    \/ BindCall
    \/ \E r \in BindResults : ParentBindReturns(r)
    \/ ParentBindRaises
    \/ RemoveFromGroupCompletes
    \/ RemoveFromGroupRaises
    \/ \E i \in DOMAIN write_tasks : WriteTaskStarts(i)
    \/ \E i \in DOMAIN write_tasks : WriteTaskSucceeds(i)
    \/ \E i \in DOMAIN write_tasks : WriteTaskFails(i)

SpecBind == InitBind /\ [][NextBind]_vars

InitQuirk == MeteringIdle /\ BindIdle /\ QuirkIdle /\ EnumIdle

NextQuirk ==
    \/ DeviceJoins
    \/ \E q \in LegacyQuirks : ApplyQuirk(q)
    \/ NoQuirkMatches

SpecQuirk == InitQuirk /\ [][NextQuirk]_vars

InitEnum == MeteringIdle /\ BindIdle /\ QuirkIdle /\ EnumIdle

NextEnum ==
    \/ \E name \in EnumNames : SelectOption(name)
    \/ ReadBack
    \/ \E raw \in 0..(UINT8_RANGE - 1) : DeviceReports(raw)

SpecEnum == InitEnum /\ [][NextEnum]_vars

----------------------------------------------------------------------------
(* Properties of PlugAEU001MeteringCluster._update_attribute *)

CSD == CURRENT_SUMM_DELIVERED_ID

Max(S) == CHOOSE m \in S : \A x \in S : x <= m

\* The call made by the current step dropped a current_summ_delivered report:
\* its value is below the value cached before the call (0 when none).
StepIsLowReport ==
    /\ last_call'.attrid = CSD
    /\ last_call'.value < CacheGet(attr_cache, CSD, 0)

\* C1: the cached current_summ_delivered never decreases: after every
\* _update_attribute call the cached value (0 when none) is at least the
\* value cached before the call, and an entry once cached stays cached.
C1_CachedNeverDecreases ==
    [][/\ CacheGet(attr_cache', CSD, 0) >= CacheGet(attr_cache, CSD, 0)
       /\ CSD \in DOMAIN attr_cache => CSD \in DOMAIN attr_cache']_vars

\* A report below the cached value was made after the cache had been raised.
C1_Witness ==
    /\ CSD \in DOMAIN attr_cache
    /\ attr_cache[CSD] >= 2
    /\ last_call.attrid = CSD
    /\ last_call.value < attr_cache[CSD]
    /\ parent_calls >= 2

\* C2: a current_summ_delivered call with a value strictly below the cached
\* value is ignored: the parent handler is not invoked and the whole
\* attribute cache is left as it was.
C2_LowReportIgnored ==
    [][StepIsLowReport =>
          /\ attr_cache' = attr_cache
          /\ parent_calls' = parent_calls
          /\ parent_args' = parent_args]_vars

\* A low report was dropped while both attributes were cached.
C2_Witness ==
    /\ DOMAIN attr_cache = AttrIds
    /\ last_call.attrid = CSD
    /\ last_call.value >= 0
    /\ last_call.value < attr_cache[CSD]
    /\ parent_args # last_call

\* C5: a call is dropped only for current_summ_delivered with a value
\* strictly below the cached value (0 when none); every other call invokes
\* the parent handler once, with the same arguments.
C5_OnlyLowReportsDropped ==
    [][IF StepIsLowReport
       THEN parent_calls' = parent_calls
       ELSE /\ parent_calls' = parent_calls + 1
            /\ parent_args' = last_call']_vars

\* An equal report and a low value of another attribute were both forwarded.
C5_Witness ==
    /\ DOMAIN attr_cache = AttrIds
    /\ attr_cache[CSD] > attr_cache[INSTANTANEOUS_DEMAND_ID]
    /\ attr_cache[INSTANTANEOUS_DEMAND_ID] < 0
    /\ parent_args = last_call
    /\ last_call.attrid = INSTANTANEOUS_DEMAND_ID
    /\ parent_calls >= 3

\* All reports so far were non-negative and at least one was made.
NonNegativeReports ==
    /\ reported # {}
    /\ \A v \in reported : v >= 0

\* C8: after non-negative current_summ_delivered reports from an empty cache
\* the cached value is the maximum of the values reported so far, and a
\* report below the cached value leaves the cached value as it is.
C8_CacheIsMaximum ==
    /\ [](NonNegativeReports =>
            /\ CSD \in DOMAIN attr_cache
            /\ attr_cache[CSD] = Max(reported))
    /\ [][(CSD \in DOMAIN attr_cache /\ StepIsLowReport) =>
              /\ CSD \in DOMAIN attr_cache'
              /\ attr_cache'[CSD] = attr_cache[CSD]]_vars

\* A counter reset: after the maximum was cached a smaller value was reported.
C8_Witness ==
    /\ NonNegativeReports
    /\ Cardinality(reported) >= 3
    /\ last_call.attrid = CSD
    /\ last_call.value < Max(reported)
    /\ attr_cache[CSD] = Max(reported)

----------------------------------------------------------------------------
(* Properties of OppleCluster.bind *)

Count(seq, e) == Cardinality({i \in DOMAIN seq : seq[i] = e})

Has(seq, e) == \E i \in DOMAIN seq : seq[i] = e

\* Every occurrence of b in seq has an occurrence of a before it.
Before(seq, a, b) ==
    \A j \in DOMAIN seq : seq[j] = b => \E i \in 1..(j - 1) : seq[i] = a

BindFinished == bind_pc \in {"returned", "raised"}

ParentBindCompleted == parent_result # NoResult

C6_BindOrder ==
    /\ Before(events, "parent_bind", "write_scheduled")
    /\ Before(events, "write_scheduled", "remove_requested")
    /\ Before(events, "remove_requested", "remove_completed")
    /\ Before(events, "write_scheduled", "returned")
    /\ Has(events, "write_scheduled") =>
           /\ write_tasks # <<>>
           /\ write_tasks[Len(write_tasks)].attrs = [a \in {9} |-> 1]
           /\ write_tasks[Len(write_tasks)].manufacturer = 4447
    /\ bind_pc = "returned" =>
           /\ bind_returned = parent_result
           /\ bind_returned \in BindResults

\* A complete bind on a device with endpoint 1, the parent bind having
\* returned something other than success.
C6_Witness ==
    /\ bind_pc = "returned"
    /\ bind_returned = "TABLE_FULL"
    /\ events = <<"parent_bind", "write_scheduled", "remove_requested",
                  "remove_completed", "returned">>

\* A step in which an existing write task changes state.
WriteTaskStep ==
    /\ Len(write_tasks') = Len(write_tasks)
    /\ write_tasks' # write_tasks

\* C7: the mode write is fire-and-forget: no step of a write task, its
\* failure included, changes the position, the result or the return value
\* of bind or the group membership; a bind awaiting the group removal can
\* always complete it whatever the state of the write; and bind returns
\* the parent's result, on a device with endpoint 1 after the removal
\* request completed.
C7_WriteFireAndForget ==
    /\ [][WriteTaskStep => UNCHANGED <<bind_ctl, group0>>]_vars
    /\ [](bind_pc = "remove_from_group" => ENABLED RemoveFromGroupCompletes)
    /\ [](bind_pc = "returned" =>
            /\ bind_returned = parent_result
            /\ 1 \in dev_endpoints => Has(events, "remove_completed"))

\* bind has returned with endpoint 1 out of group 0 although one write
\* failed while bind awaited the removal and another write is still pending.
C7_Witness ==
    /\ bind_pc = "returned"
    /\ 1 \in dev_endpoints
    /\ 1 \notin group0
    /\ bind_returned = parent_result
    /\ \E i \in DOMAIN write_tasks :
           /\ write_tasks[i].state = "failed"
           /\ write_tasks[i].settled_during = "remove_from_group"
    /\ \E j \in DOMAIN write_tasks :
           write_tasks[j].state \in {"scheduled", "running"}

----------------------------------------------------------------------------
(* Properties of the legacy quirk classes *)

CustomClasses(clusters) ==
    {clusters[i].cls : i \in DOMAIN clusters} \ {"zcl"}

\* C4: a device wrapped in any of the eight legacy classes has exactly the
\* endpoints 1, 21 and 242 of the one shared replacement, endpoint 1 with the
\* custom Basic, Metering, ElectricalMeasurement and Opple clusters and
\* endpoint 21 with the custom AnalogInput cluster, whatever endpoints its
\* signature listed.
C4_SameReplacement ==
    quirk_class \in LegacyQuirks =>
        /\ DOMAIN quirk_endpoints = {1, 21, 242}
        /\ CustomClasses(quirk_endpoints[1].input_clusters) =
              {"BasicCluster", "MeteringCluster",
               "ElectricalMeasurementCluster", "OppleCluster"}
        /\ CustomClasses(quirk_endpoints[21].input_clusters) =
              {"AnalogInputCluster"}
        /\ \A q \in applied_quirks : quirk_endpoints = replacement(q)

\* All eight classes have been applied, the last to a device that reported
\* endpoint 22 and no endpoint 31.
C4_Witness ==
    /\ applied_quirks = LegacyQuirks
    /\ quirk_class = "PlugMAEU01Alt3"
    /\ DOMAIN dev_sig = {1, 21, 22, 242}
    /\ DOMAIN quirk_endpoints = {1, 21, 242}

----------------------------------------------------------------------------
(* Properties of AqaraPowerOutageMemoryEnum *)

\* C9: On, Previous, Off and Inverted correspond one to one to the raw
\* values 0, 1, 2 and 3: a member written as its raw value is read back as
\* the same member, a reported raw value converts to a member exactly when
\* it is one of 0..3, and that member is the only one with that raw value.
C9_EnumBijection ==
    /\ EnumNames = {"On", "Previous", "Off", "Inverted"}
    /\ enum_pc \in {"written", "read"} =>
           enum_raw = (CASE enum_member = "On" -> 0
                         [] enum_member = "Previous" -> 1
                         [] enum_member = "Off" -> 2
                         [] enum_member = "Inverted" -> 3)
    /\ enum_pc = "read" => enum_read = enum_member
    /\ enum_pc = "reported" =>
           /\ enum_read \in EnumNames <=> enum_raw \in 0..3
           /\ enum_read \in EnumNames =>
                  \A n \in EnumNames : EnumValue(n) = enum_raw <=> n = enum_read

\* Inverted was written as 3 and read back as Inverted.
C9_Witness ==
    /\ enum_pc = "read"
    /\ enum_member = "Inverted"
    /\ enum_raw = 3
    /\ enum_read = "Inverted"

====
